---- MODULE Spec2Model ----
(***************************************************************************)
(* A model of damj: the pattern matcher, the directory walker, the         *)
(* structure renderer, the source transformer and the prompt assembler.    *)
(*                                                                         *)
(* Text is a sequence of atoms.  An atom is a TLA+ string standing for an  *)
(* indivisible run of characters.  Paths and patterns are built from       *)
(* single-character atoms, so that Python's substring test is modelled     *)
(* exactly.  The whitespace atoms are listed in WS.                        *)
(***************************************************************************)
EXTENDS Integers, Sequences, FiniteSets, TLC

VARIABLES
    \* ---- the Damj object and its environment (damj.py) ----
    tree,             \* the directory tree found under the project root
    disk,             \* every file on disk, by absolute path
    cwd,              \* Damj.cwd: the project root, as text
    whitelist_arg,    \* the whitelist_files argument of the constructor
    blacklist_files,  \* Damj.blacklist_files
    whitelist_files,  \* Damj.whitelist_files: the Inclusion Set
    snippet_marker,   \* Damj.snippet_marker
    prompt,           \* Damj.prompt: the accumulated buffer
    proc_cwd,         \* the working directory of the process
    walked,           \* directories os.walk yielded to _get_whitelist_files
    rendered,         \* directories os.walk yielded to the last get_project_structure
    opened,           \* absolute paths the last project_info call opened
    ret,              \* the last call: its name, arguments and outcome
    clipboard,        \* what pyperclip holds
    n_info,           \* number of project_info calls made
    last_info,        \* arguments and outcome of the last project_info call
    \* ---- matches_pattern applied to drawn inputs ----
    m_path, m_patterns, m_result,
    \* ---- get_file_content applied to drawn inputs ----
    t_name, t_data, t_opts, t_out, t_parsed, t_out2

asmVars == <<tree, disk, cwd, whitelist_arg, blacklist_files, whitelist_files,
             snippet_marker, prompt, proc_cwd, walked, rendered, opened,
             ret, clipboard, n_info, last_info>>
matchVars == <<m_path, m_patterns, m_result>>
xfVars == <<t_name, t_data, t_opts, t_out, t_parsed, t_out2>>
vars == <<asmVars, matchVars, xfVars>>

None == "None"

\* an optional value: <<>> is Python's None, <<v>> is the value v
Nothing == <<>>
Some(v) == <<v>>
IsSome(x) == Len(x) = 1

\* ------------------------------------------------------------------------
\* Python str primitives
\* ------------------------------------------------------------------------

WS == {" ", "\n", "    "}

\* s.startswith(p)
StartsWith(s, p) == Len(p) <= Len(s) /\ SubSeq(s, 1, Len(p)) = p

\* s.endswith(p)
EndsWith(s, p) == Len(p) <= Len(s) /\ SubSeq(s, Len(s) - Len(p) + 1, Len(s)) = p

\* p in s
Contains(s, p) == \E i \in 1..(Len(s) - Len(p) + 1) : SubSeq(s, i, i + Len(p) - 1) = p

\* s.count(c) for a one-character c
RECURSIVE Count(_, _)
Count(s, c) ==
    IF s = <<>> THEN 0
    ELSE (IF Head(s) = c THEN 1 ELSE 0) + Count(Tail(s), c)

RECURSIVE LStrip(_)
LStrip(s) == IF s # <<>> /\ Head(s) \in WS THEN LStrip(Tail(s)) ELSE s

RECURSIVE RStrip(_)
RStrip(s) ==
    IF s # <<>> /\ s[Len(s)] \in WS THEN RStrip(SubSeq(s, 1, Len(s) - 1)) ELSE s

\* s.strip()
Strip(s) == RStrip(LStrip(s))

\* "".join(parts)
RECURSIVE Concat(_)
Concat(parts) == IF parts = <<>> THEN <<>> ELSE Head(parts) \o Concat(Tail(parts))

\* "\n".join(lines)
RECURSIVE JoinLines(_)
JoinLines(lines) ==
    IF lines = <<>> THEN <<>>
    ELSE IF Len(lines) = 1 THEN lines[1]
    ELSE lines[1] \o <<"\n">> \o JoinLines(Tail(lines))

\* s.splitlines(): a final newline ends the last line, it opens no new one
RECURSIVE SplitFrom(_, _)
SplitFrom(s, cur) ==
    IF s = <<>> THEN (IF cur = <<>> THEN <<>> ELSE <<cur>>)
    ELSE IF Head(s) = "\n" THEN <<cur>> \o SplitFrom(Tail(s), <<>>)
    ELSE SplitFrom(Tail(s), Append(cur, Head(s)))

SplitLines(s) == SplitFrom(s, <<>>)

\* ------------------------------------------------------------------------
\* os.path
\* ------------------------------------------------------------------------

SEP == "/"

\* os.path.join(a, b) for a relative b
PathJoin(a, b) ==
    IF a = <<>> THEN b
    ELSE IF a[Len(a)] = SEP THEN a \o b
    ELSE a \o <<SEP>> \o b

\* os.path.normpath for the paths met here: "./" segments and a final "/" go
RECURSIVE DropDotSegments(_)
DropDotSegments(p) ==
    IF p = <<>> THEN <<>>
    ELSE IF Len(p) >= 3 /\ SubSeq(p, 1, 3) = <<SEP, ".", SEP>> THEN DropDotSegments(Tail(Tail(p)))
    ELSE IF p = <<SEP, ".">> THEN <<SEP>>
    ELSE <<Head(p)>> \o DropDotSegments(Tail(p))

RECURSIVE DropLeadingDot(_)
DropLeadingDot(p) ==
    IF StartsWith(p, <<".", SEP>>) THEN DropLeadingDot(Tail(Tail(p))) ELSE p

DropFinalSep(p) ==
    IF Len(p) > 1 /\ p[Len(p)] = SEP THEN SubSeq(p, 1, Len(p) - 1) ELSE p

NormPath(p) ==
    LET q == DropFinalSep(DropLeadingDot(DropDotSegments(p))) IN
    IF q = <<>> THEN <<".">> ELSE q

\* os.path.relpath(path, start) for a path at or below start
relpath(path, start) ==
    IF NormPath(path) = NormPath(start) THEN <<".">>
    ELSE SubSeq(NormPath(path), Len(NormPath(start)) + 2, Len(NormPath(path)))

\* os.path.basename(p)
RECURSIVE basename(_)
basename(p) ==
    IF p = <<>> \/ p[Len(p)] = SEP THEN <<>>
    ELSE Append(basename(SubSeq(p, 1, Len(p) - 1)), p[Len(p)])

\* the file a relative path names for a process whose working directory is d
AbsPath(d, p) == NormPath(PathJoin(d, p))

\* ------------------------------------------------------------------------
\* utils.matches_pattern
\* ------------------------------------------------------------------------

STAR == <<"*">>

\* a variant whose loop returns after the first pattern
RECURSIVE matches_pattern_first_only(_, _)
matches_pattern_first_only(file_path, patterns) ==
    IF patterns = <<>> THEN FALSE
    ELSE IF Head(patterns) = STAR THEN TRUE
    ELSE Contains(file_path, Head(patterns))

RECURSIVE matches_pattern(_, _)
matches_pattern(file_path, patterns) ==
    IF patterns = <<>> THEN FALSE
    ELSE IF Head(patterns) = STAR THEN TRUE
    ELSE IF Contains(file_path, Head(patterns)) THEN TRUE
    ELSE matches_pattern(file_path, Tail(patterns))

\* ------------------------------------------------------------------------
\* Python source text, ast.parse and ast.unparse
\*
\* A physical line is indentation atoms followed by one statement atom.
\* ------------------------------------------------------------------------

INDENT == "    "
FUNCDEF == "def f():"
CLASSDEF == "class C:"
IFX == "if x:"
DOC == "'doc'"
PASS == "pass"
IMPORT == "import os"
FROM == "from a import b"
IMPORTANT == "important = 1"
HASH == "# note"

\* statement atoms that open a block, and those that stand alone
Compound == {FUNCDEF, CLASSDEF, IFX}
Simple == {DOC, PASS, IMPORT, FROM, IMPORTANT}

\* atoms whose characters begin with "#", "import", "from"
HashPrefixed == {HASH}
ImportPrefixed == {IMPORT, IMPORTANT}
FromPrefixed == {FROM}

\* line.strip().startswith(prefix), prefix given by the atoms that begin with it
StrippedStartsWith(line, prefixed) ==
    Strip(line) # <<>> /\ Head(Strip(line)) \in prefixed

RECURSIVE LeadingIndents(_)
LeadingIndents(line) ==
    IF line # <<>> /\ Head(line) = INDENT THEN 1 + LeadingIndents(Tail(line)) ELSE 0

\* the tokenizer drops blank lines and comment lines
IsIgnoredLine(line) == Strip(line) = <<>> \/ StrippedStartsWith(line, HashPrefixed)

\* a logical line: its indentation and what follows it
Logical(line) ==
    [ind |-> LeadingIndents(line),
     rest |-> SubSeq(line, LeadingIndents(line) + 1, Len(line))]

RECURSIVE LogicalLines(_)
LogicalLines(lines) ==
    IF lines = <<>> THEN <<>>
    ELSE IF IsIgnoredLine(Head(lines)) THEN LogicalLines(Tail(lines))
    ELSE <<Logical(Head(lines))>> \o LogicalLines(Tail(lines))

ParseFail == [ok |-> FALSE, body |-> <<>>, next |-> 0]

\* the statements at indentation ind from logical line i on; a block header
\* must be followed by a deeper block, and a line may not be indented beyond
\* its block
RECURSIVE ParseBlock(_, _, _)
ParseBlock(ll, i, ind) ==
    IF i > Len(ll) \/ ll[i].ind < ind THEN [ok |-> TRUE, body |-> <<>>, next |-> i]
    ELSE IF ll[i].ind > ind \/ Len(ll[i].rest) # 1 THEN ParseFail
    ELSE IF ll[i].rest[1] \in Compound THEN
        IF i + 1 > Len(ll) \/ ll[i + 1].ind <= ind THEN ParseFail
        ELSE LET b == ParseBlock(ll, i + 1, ll[i + 1].ind) IN
             IF ~b.ok THEN ParseFail
             ELSE LET r == ParseBlock(ll, b.next, ind) IN
                  IF ~r.ok THEN ParseFail
                  ELSE [ok |-> TRUE,
                        body |-> <<[tok |-> ll[i].rest[1], body |-> b.body]>> \o r.body,
                        next |-> r.next]
    ELSE IF ll[i].rest[1] \in Simple THEN
        LET r == ParseBlock(ll, i + 1, ind) IN
        IF ~r.ok THEN ParseFail
        ELSE [ok |-> TRUE,
              body |-> <<[tok |-> ll[i].rest[1], body |-> <<>>]>> \o r.body,
              next |-> r.next]
    ELSE ParseFail

\* the Module node made of a parsed top-level block
ModuleOf(r) == [ok |-> r.ok, tree |-> [tok |-> "Module", body |-> r.body]]

\* ast.parse(code): [ok, tree]; not ok is a SyntaxError
ast_parse(code) == ModuleOf(ParseBlock(LogicalLines(SplitLines(code)), 1, 0))

RECURSIVE Repeat(_, _)
Repeat(a, n) == IF n = 0 THEN <<>> ELSE <<a>> \o Repeat(a, n - 1)

\* the unparser's lines: a blank line goes before a def or class that is not
\* the first thing written, and a block is written one level deeper
RECURSIVE UnparseStmts(_, _, _)
UnparseStmts(body, ind, acc) ==
    IF body = <<>> THEN acc
    ELSE LET n == Head(body)
             pre == IF n.tok \in {FUNCDEF, CLASSDEF} /\ acc # <<>> THEN Append(acc, <<>>) ELSE acc
             hd == Append(pre, Repeat(INDENT, ind) \o <<n.tok>>)
         IN UnparseStmts(Tail(body), ind, UnparseStmts(n.body, ind + 1, hd))

\* ast.unparse(tree)
ast_unparse(t) == JoinLines(UnparseStmts(t.body, 0, <<>>))

\* ------------------------------------------------------------------------
\* utils.strip_docstrings
\* ------------------------------------------------------------------------

DocstringOwners == {"Module", FUNCDEF, CLASSDEF}

\* isinstance(n, ast.Expr) and isinstance(n.value, ast.Str)
IsStrExpr(n) == n.tok = DOC

RECURSIVE strip_docstrings(_), StripEach(_)
strip_docstrings(node) ==
    [tok |-> node.tok,
     body |-> StripEach(IF node.tok \in DocstringOwners
                        THEN SelectSeq(node.body, LAMBDA n : ~IsStrExpr(n))
                        ELSE node.body)]

StripEach(body) ==
    IF body = <<>> THEN <<>>
    ELSE <<strip_docstrings(Head(body))>> \o StripEach(Tail(body))

\* ------------------------------------------------------------------------
\* utils.get_file_content and utils.handle_ipynb
\* ------------------------------------------------------------------------

\* d.get(k, default) on a dictionary
Get(d, k, default) == IF k \in DOMAIN d THEN d[k] ELSE default

\* an outcome: a returned value or a raised exception, with the texts that
\* were handed to ast.parse on the way
Return(v, parsed) == [ok |-> TRUE, value |-> v, err |-> None, parsed |-> parsed]
Raise(e, parsed) == [ok |-> FALSE, value |-> <<>>, err |-> e, parsed |-> parsed]

\* the line filter for comments
drop_comments(code) ==
    JoinLines(SelectSeq(SplitLines(code),
                        LAMBDA line : ~StrippedStartsWith(line, HashPrefixed)))

\* the line filter for imports
drop_imports(code) ==
    JoinLines(SelectSeq(SplitLines(code),
                        LAMBDA line : ~StrippedStartsWith(line, ImportPrefixed)
                                      /\ ~StrippedStartsWith(line, FromPrefixed)))

\* file data: text, a JSON document, or the mark of a file that is not there
TextFile(text) == [kind |-> "text", text |-> text]
JsonFile(doc) == [kind |-> "json", doc |-> doc]
Missing == [kind |-> "missing"]

\* open(path) by a process whose working directory is pwd
Open(fsys, pwd, path) ==
    IF AbsPath(pwd, path) \in DOMAIN fsys THEN fsys[AbsPath(pwd, path)] ELSE Missing

\* the two line filters, each applied when its option is off
LineFilters(code, add_comments, add_imports) ==
    IF add_comments
    THEN (IF add_imports THEN code ELSE drop_imports(code))
    ELSE (IF add_imports THEN drop_comments(code) ELSE drop_imports(drop_comments(code)))

\* tree = ast.parse(code); code = ast.unparse(strip_docstrings(tree)), p being
\* what ast.parse(code) gave
StripParsed(code, p) ==
    IF ~p.ok THEN Raise("SyntaxError", <<code>>)
    ELSE Return(ast_unparse(strip_docstrings(p.tree)), <<code>>)

\* the line filters applied to what the docstring step returned
FilterStripped(r, add_comments, add_imports) ==
    IF ~r.ok THEN r
    ELSE Return(LineFilters(r.value, add_comments, add_imports), r.parsed)

\* handle_ipynb.process_code: docstrings first, then comments, then imports
process_code(code, add_comments, add_imports, add_docstrings) ==
    IF add_docstrings THEN Return(LineFilters(code, add_comments, add_imports), <<>>)
    ELSE FilterStripped(StripParsed(code, ast_parse(code)), add_comments, add_imports)

\* the text of one cell's outputs
OutputText(o) ==
    IF "text" \in DOMAIN o THEN Concat(o["text"]) \o <<"\n">>
    ELSE IF "data" \in DOMAIN o /\ "text/plain" \in DOMAIN o["data"]
    THEN Concat(o["data"]["text/plain"]) \o <<"\n">>
    ELSE <<>>

RECURSIVE OutputsText(_)
OutputsText(outputs) ==
    IF outputs = <<>> THEN <<>>
    ELSE OutputText(Head(outputs)) \o OutputsText(Tail(outputs))

CellOutputs(cell, py_options) ==
    IF Get(py_options, "ipynb_output", FALSE)
    THEN OutputsText(Get(cell, "outputs", <<>>))
    ELSE <<>>

\* the loop over the cells, result and parsed being what was gathered so far;
\* CellStep is the loop body once process_code gave r
RECURSIVE CellsLoop(_, _, _, _), CellStep(_, _, _, _, _)
CellsLoop(cells, py_options, result, parsed) ==
    IF cells = <<>> THEN Return(result, parsed)
    ELSE IF Get(Head(cells), "cell_type", None) # "code"
    THEN CellsLoop(Tail(cells), py_options, result, parsed)
    ELSE CellStep(cells, py_options, result, parsed,
                  process_code(Concat(Get(Head(cells), "source", <<>>)),
                               Get(py_options, "add_comments", TRUE),
                               Get(py_options, "add_imports", TRUE),
                               Get(py_options, "add_docstrings", TRUE)))

CellStep(cells, py_options, result, parsed, r) ==
    IF ~r.ok THEN Raise(r.err, parsed \o r.parsed)
    ELSE CellsLoop(Tail(cells), py_options,
                   result \o r.value \o <<"\n">> \o CellOutputs(Head(cells), py_options),
                   parsed \o r.parsed)

\* a variant that indexes the document with ["cells"]
LoadNotebook_strict(f, py_options) ==
    IF f.kind = "missing" THEN Raise("FileNotFoundError", <<>>)
    ELSE IF f.kind # "json" THEN Raise("JSONDecodeError", <<>>)
    ELSE IF f.doc.type # "object" THEN Raise("AttributeError", <<>>)
    ELSE IF "cells" \notin DOMAIN f.doc.fields THEN Raise("KeyError", <<>>)
    ELSE CellsLoop(f.doc.fields["cells"], py_options, <<>>, <<>>)

\* json.load and the loop, f being what open(file_path) gave
LoadNotebook(f, py_options) ==
    IF f.kind = "missing" THEN Raise("FileNotFoundError", <<>>)
    ELSE IF f.kind # "json" THEN Raise("JSONDecodeError", <<>>)
    ELSE IF f.doc.type # "object" THEN Raise("AttributeError", <<>>)
    ELSE CellsLoop(Get(f.doc.fields, "cells", <<>>), py_options, <<>>, <<>>)

handle_ipynb(file_path, py_options, fsys, pwd) ==
    LoadNotebook(Open(fsys, pwd, file_path), py_options)

IPYNB == <<".", "i", "p", "y", "n", "b">>

\* the raw characters of a file that is read as text
RawText(f) == IF f.kind = "text" THEN f.text ELSE <<"{json}">>

\* the plain-file path: comments, then imports, then docstrings, f being what
\* open(file) gave
ParseFiltered(code, add_docstrings) ==
    IF add_docstrings THEN Return(code, <<>>)
    ELSE StripParsed(code, ast_parse(code))

ReadPlain(f, py_options) ==
    IF f.kind = "missing" THEN Raise("FileNotFoundError", <<>>)
    ELSE ParseFiltered(LineFilters(RawText(f),
                                   Get(py_options, "add_comments", TRUE),
                                   Get(py_options, "add_imports", TRUE)),
                       Get(py_options, "add_docstrings", TRUE))

get_file_content(file, py_options, fsys, pwd) ==
    IF EndsWith(file, IPYNB) THEN handle_ipynb(file, py_options, fsys, pwd)
    ELSE ReadPlain(Open(fsys, pwd, file), py_options)

\* ------------------------------------------------------------------------
\* The filesystem.  A tree maps a directory number to its name, its
\* subdirectories and its files, both in the order the system lists them;
\* directory 0 is the project root.
\* ------------------------------------------------------------------------

\* list.sort() on names: code-point order
Alphabet == <<".", "_", "a", "b", "c", "d", "e", "h", "i", "m", "n", "p", "r",
              "s", "t", "v", "x", "y", "z">>

Rank(c) == CHOOSE i \in 1..Len(Alphabet) : Alphabet[i] = c

RECURSIVE NameLess(_, _)
NameLess(a, b) ==
    IF b = <<>> THEN FALSE
    ELSE IF a = <<>> THEN TRUE
    ELSE IF Head(a) = Head(b) THEN NameLess(Tail(a), Tail(b))
    ELSE Rank(Head(a)) < Rank(Head(b))

RECURSIVE Insert(_, _)
Insert(name, sorted) ==
    IF sorted = <<>> THEN <<name>>
    ELSE IF NameLess(name, Head(sorted)) THEN <<name>> \o sorted
    ELSE <<Head(sorted)>> \o Insert(name, Tail(sorted))

RECURSIVE Sorted(_)
Sorted(names) == IF names = <<>> THEN <<>> ELSE Insert(Head(names), Sorted(Tail(names)))

Names(files) == [i \in 1..Len(files) |-> files[i].name]

\* every file of the tree below directory id, with its path from the root
RECURSIVE TreeFiles(_, _, _), TreeFilesOf(_, _, _)
TreeFiles(t, id, root) ==
    [i \in 1..Len(t[id].files) |->
        [path |-> PathJoin(root, t[id].files[i].name), data |-> t[id].files[i].data]]
    \o TreeFilesOf(t, t[id].dirs, root)

TreeFilesOf(t, ids, root) ==
    IF ids = <<>> THEN <<>>
    ELSE TreeFiles(t, Head(ids), PathJoin(root, t[Head(ids)].name))
         \o TreeFilesOf(t, Tail(ids), root)

\* what is on fsys: the tree mounted at the project root, and the files elsewhere
Disk(t, root, elsewhere) ==
    LET fs == TreeFiles(t, 0, NormPath(root))
        at(p) == CHOOSE i \in 1..Len(fs) : fs[i].path = p
    IN [p \in {fs[i].path : i \in 1..Len(fs)} \cup DOMAIN elsewhere |->
           IF p \in DOMAIN elsewhere THEN elsewhere[p] ELSE fs[at(p)].data]

\* ------------------------------------------------------------------------
\* Damj._get_whitelist_files
\* ------------------------------------------------------------------------

HIDDEN == <<".">>

\* the dirs[:] assignment of the walker: what os.walk goes on to visit
WalkerKeptDirs(t, ids, root, top, blacklist) ==
    SelectSeq(ids, LAMBDA d :
        ~StartsWith(t[d].name, HIDDEN)
        /\ ~matches_pattern(PathJoin(relpath(root, top), t[d].name), blacklist))

\* a variant in which a whitelist match keeps a blacklisted file
WalkerFiles_whitelist_first(names, relative_root, whitelist, blacklist) ==
    LET paths == [i \in 1..Len(names) |-> PathJoin(relative_root, names[i])]
    IN SelectSeq(paths, LAMBDA fp :
           ~StartsWith(basename(fp), HIDDEN)
           /\ (matches_pattern(fp, whitelist) \/ ~matches_pattern(fp, blacklist)))

\* the loop over one directory's files
WalkerFiles(names, relative_root, whitelist, blacklist) ==
    LET kept == SelectSeq(names, LAMBDA file :
                    ~StartsWith(file, HIDDEN)
                    /\ ~matches_pattern(PathJoin(relative_root, file), blacklist)
                    /\ matches_pattern(PathJoin(relative_root, file), whitelist))
    IN [i \in 1..Len(kept) |-> PathJoin(relative_root, kept[i])]

\* os.walk from directory id, top down: the matched files and the directories
\* yielded, in order
RECURSIVE Walk(_, _, _, _, _, _), WalkEach(_, _, _, _, _, _)
Walk(t, id, root, top, whitelist, blacklist) ==
    LET here == WalkerFiles(Names(t[id].files), relpath(root, top), whitelist, blacklist)
        below == WalkEach(t, WalkerKeptDirs(t, t[id].dirs, root, top, blacklist),
                          root, top, whitelist, blacklist)
    IN [files |-> here \o below.files, visited |-> <<root>> \o below.visited]

WalkEach(t, ids, root, top, whitelist, blacklist) ==
    IF ids = <<>> THEN [files |-> <<>>, visited |-> <<>>]
    ELSE LET first == Walk(t, Head(ids), PathJoin(root, t[Head(ids)].name), top,
                           whitelist, blacklist)
             rest == WalkEach(t, Tail(ids), root, top, whitelist, blacklist)
         IN [files |-> first.files \o rest.files,
             visited |-> first.visited \o rest.visited]

_get_whitelist_files(t, top, whitelist, blacklist) ==
    Walk(t, 0, top, top, whitelist, blacklist)

\* ------------------------------------------------------------------------
\* utils.get_indent and utils.get_project_structure
\* ------------------------------------------------------------------------

get_indent(level) == Concat(Repeat(<<"|", " ", " ", " ">>, level))

\* the tree-branch marker and the space after it
BRANCH == <<"+--", " ">>

\* the dirs[:] assignment of the renderer
RendererKeptDirs(t, ids, root, blacklist) ==
    SelectSeq(ids, LAMBDA d :
        ~StartsWith(t[d].name, HIDDEN)
        /\ ~matches_pattern(PathJoin(root, t[d].name), blacklist))

\* the lines for one directory's files, sorted
RECURSIVE FileLines(_, _, _, _)
FileLines(names, current_dir, indent_level, blacklist) ==
    IF names = <<>> THEN <<>>
    ELSE (IF StartsWith(Head(names), HIDDEN)
             \/ matches_pattern(PathJoin(current_dir, Head(names)), blacklist)
          THEN <<>>
          ELSE get_indent(indent_level + 1) \o BRANCH \o Head(names) \o <<"\n">>)
         \o FileLines(Tail(names), current_dir, indent_level, blacklist)

RECURSIVE Render(_, _, _, _, _), RenderEach(_, _, _, _, _)
Render(t, id, root, top, blacklist) ==
    LET current_dir == relpath(root, top)
        indent_level == Count(current_dir, SEP)
        line == IF current_dir # <<".">>
                THEN get_indent(indent_level) \o BRANCH \o basename(root) \o <<SEP, "\n">>
                ELSE <<>>
        files == FileLines(Sorted(Names(t[id].files)), current_dir, indent_level, blacklist)
        below == RenderEach(t, RendererKeptDirs(t, t[id].dirs, root, blacklist),
                            root, top, blacklist)
    IN [text |-> line \o files \o below.text, visited |-> <<root>> \o below.visited]

RenderEach(t, ids, root, top, blacklist) ==
    IF ids = <<>> THEN [text |-> <<>>, visited |-> <<>>]
    ELSE LET first == Render(t, Head(ids), PathJoin(root, t[Head(ids)].name), top, blacklist)
             rest == RenderEach(t, Tail(ids), root, top, blacklist)
         IN [text |-> first.text \o rest.text, visited |-> first.visited \o rest.visited]

get_project_structure(t, top, blacklist) == Render(t, 0, top, top, blacklist)

\* ------------------------------------------------------------------------
\* utils.show_markdown
\* ------------------------------------------------------------------------

BULLET == "(bullet)"

\* the pieces lo..hi of a sequence of texts, joined
RECURSIVE Flatten(_, _, _)
Flatten(pieces, lo, hi) ==
    IF lo > hi THEN <<>>
    ELSE IF lo = hi THEN pieces[lo]
    ELSE Flatten(pieces, lo, (lo + hi) \div 2) \o Flatten(pieces, (lo + hi) \div 2 + 1, hi)

\* text.replace(a, by)
ReplaceAtom(text, a, by) ==
    Flatten([i \in 1..Len(text) |-> IF text[i] = a THEN by ELSE <<text[i]>>], 1, Len(text))

\* textwrap.indent(text, prefix, predicate=lambda _: True): every line gets the prefix
IndentLines(text, prefix) ==
    Flatten([i \in 1..Len(text) |->
                (IF i = 1 \/ text[i - 1] = "\n" THEN prefix ELSE <<>>) \o <<text[i]>>],
            1, Len(text))

show_markdown(text) ==
    IndentLines(ReplaceAtom(ReplaceAtom(text, BULLET, <<" ", " ", "*">>),
                            "\n", <<" ", " ", "\n">>),
                <<">", " ">>)

\* ------------------------------------------------------------------------
\* Damj: the prompt assembler
\* ------------------------------------------------------------------------

OVERVIEW_HEADER == "# Project Overview"
STRUCTURE_HEADER == "# Project Structure"
QUESTION_HEADER == "# Question"

DEFAULT_WHITELIST == <<STAR>>
DEFAULT_BLACKLIST == <<<<"_", "_", "p", "y", "c", "a", "c", "h", "e", "_", "_">>>>
\* the default snippet marker, three backquotes, as one atom
DEFAULT_MARKER == <<"(fence)">>

DEFAULT_PY_OPTIONS ==
    [add_comments |-> TRUE, add_imports |-> TRUE, add_docstrings |-> TRUE,
     ipynb_output |-> FALSE]

\* a variant that starts the buffer again
_add_project_overview_reset(p, project_overview) ==
    <<"\n", OVERVIEW_HEADER, "\n">> \o project_overview \o <<"\n", "\n">>

_add_project_overview(p, project_overview) ==
    p \o <<"\n", OVERVIEW_HEADER, "\n">> \o project_overview \o <<"\n", "\n">>

_add_project_structure(p, project_structure) ==
    p \o <<"\n", STRUCTURE_HEADER, "\n">> \o project_structure \o <<"\n", "\n">>

_get_relative_path(top, file) == relpath(PathJoin(top, file), top)

_add_file_content(p, top, marker, file, file_content) ==
    p \o <<"\n">> \o marker \o _get_relative_path(top, file) \o <<"\n">>
      \o file_content \o <<"\n">> \o marker \o <<"\n", "\n">>

\* the loop over the Inclusion Set; it stops at the first file that raises;
\* FileStep is the loop body once get_file_content gave c
RECURSIVE _add_files_content(_, _, _, _, _, _, _, _), FileStep(_, _, _, _, _, _, _, _, _)
_add_files_content(p, files, py_options, top, marker, fsys, pwd, seen) ==
    IF files = <<>> THEN [ok |-> TRUE, prompt |-> p, err |-> None, opened |-> seen]
    ELSE FileStep(p, files, py_options, top, marker, fsys, pwd,
                  Append(seen, AbsPath(pwd, Head(files))),
                  get_file_content(Head(files), py_options, fsys, pwd))

FileStep(p, files, py_options, top, marker, fsys, pwd, seen, c) ==
    IF ~c.ok THEN [ok |-> FALSE, prompt |-> p, err |-> c.err, opened |-> seen]
    ELSE _add_files_content(_add_file_content(p, top, marker, Head(files), c.value),
                            Tail(files), py_options, top, marker, fsys, pwd, seen)

\* a variant that puts the question before the buffer
_add_question_first(p, question) ==
    <<"\n", QUESTION_HEADER, "\n">> \o question \o <<"\n", "\n">> \o p

_add_question(p, question) ==
    p \o <<"\n", QUESTION_HEADER, "\n">> \o question \o <<"\n", "\n">>

_post_process_prompt(p) == Strip(p)

\* ------------------------------------------------------------------------
\* Bounds and the inputs drawn
\* ------------------------------------------------------------------------

\* project_info calls on one assembler
MaxCalls == 2
\* patterns in a drawn pattern list
MaxPatterns == 2
\* lines in a generated source text
MaxLines == 2

Ln(ind, tok) == Repeat(INDENT, ind) \o <<tok>>
Src(lines, nl) == JoinLines(lines) \o (IF nl THEN <<"\n">> ELSE <<>>)

SeqsUpTo(S, n) == UNION {[1..k -> S] : k \in 0..n}

N_a == <<"a">>
N_b == <<"b">>
N_ab == <<"a", "b">>
N_hidden == <<".", "h", "i", "d", "d", "e", "n">>
N_pycache == <<"_", "_", "p", "y", "c", "a", "c", "h", "e", "_", "_">>
N_x_py == <<"x", ".", "p", "y">>
N_y_py == <<"y", ".", "p", "y">>
N_z_py == <<"z", ".", "p", "y">>
N_m_py == <<"m", ".", "p", "y">>
N_t_py == <<"t", ".", "p", "y">>
N_c_pyc == <<"c", ".", "p", "y", "c">>
N_secret == <<".", "s", "e", "c", "r", "e", "t">>
N_env == <<".", "e", "n", "v">>
N_n_ipynb == <<"n", ".", "i", "p", "y", "n", "b">>

P_dot_py == <<".", "p", "y">>
P_star_py == <<"*", ".", "p", "y">>
P_dot_slash == <<".", "/">>

SRC_X == Src(<<Ln(0, DOC), Ln(0, IMPORT), Ln(0, FUNCDEF), Ln(1, DOC), Ln(1, PASS)>>, TRUE)
SRC_Y == Src(<<Ln(0, HASH), Ln(0, FROM), Ln(0, PASS)>>, TRUE)
SRC_M == Src(<<Ln(0, CLASSDEF), Ln(1, DOC), Ln(1, FUNCDEF), Ln(2, DOC), Ln(2, PASS)>>, FALSE)
SRC_BAD == Src(<<Ln(1, PASS)>>, TRUE)

Cell(type, source, outputs) == [cell_type |-> type, source |-> source, outputs |-> outputs]
Notebook(fields) == [type |-> "object", fields |-> fields]

NB_TWO ==
    Notebook([cells |-> <<
        Cell("code", <<Ln(0, DOC) \o <<"\n">>, Ln(0, IMPORT)>>,
             <<[text |-> <<<<"out">>, <<"\n">>>>], [output_type |-> "display_data"]>>),
        Cell("markdown", <<<<"prose">>>>, <<>>),
        [cell_type |-> "code", source |-> <<Ln(0, HASH) \o <<"\n">> \o Ln(0, PASS)>>,
         outputs |-> <<[data |-> ("text/plain" :> <<<<"42">>>>)]>>]>>,
      metadata |-> <<>>])
NB_NO_CELLS == Notebook([metadata |-> <<>>, nbformat |-> <<"4">>])
NB_EMPTY_OBJECT == Notebook(<<>>)
NB_BAD_CELL == Notebook([cells |-> <<[cell_type |-> "code", source |-> <<Ln(1, PASS)>>]>>])
NB_BARE_CELLS == Notebook([cells |-> <<[cell_type |-> "code"], [source |-> <<Ln(0, PASS)>>]>>])
NB_ARRAY == [type |-> "array", fields |-> <<>>]

\* the tree of the worked example: a/, a/.hidden/, a/b/, a/x.py, a/.secret, a/b/y.py
TreeA ==
    (0 :> [name |-> <<>>, dirs |-> <<1>>, files |-> <<>>])
    @@ (1 :> [name |-> N_a, dirs |-> <<2, 3>>,
              files |-> <<[name |-> N_x_py, data |-> TextFile(SRC_X)],
                          [name |-> N_secret, data |-> TextFile(<<"s3cret">>)]>>])
    @@ (2 :> [name |-> N_hidden, dirs |-> <<>>,
              files |-> <<[name |-> N_z_py, data |-> TextFile(SRC_Y)]>>])
    @@ (3 :> [name |-> N_b, dirs |-> <<>>,
              files |-> <<[name |-> N_y_py, data |-> TextFile(SRC_Y)]>>])

\* files at the root, listed out of order, a cache directory and a plain one
TreeB ==
    (0 :> [name |-> <<>>, dirs |-> <<1, 2>>,
           files |-> <<[name |-> N_n_ipynb, data |-> JsonFile(NB_TWO)],
                       [name |-> N_env, data |-> TextFile(<<"KEY=1">>)],
                       [name |-> N_m_py, data |-> TextFile(SRC_M)]>>])
    @@ (1 :> [name |-> N_pycache, dirs |-> <<>>,
              files |-> <<[name |-> N_c_pyc, data |-> TextFile(<<"bytes">>)]>>])
    @@ (2 :> [name |-> N_ab, dirs |-> <<>>,
              files |-> <<[name |-> N_t_py, data |-> TextFile(SRC_BAD)]>>])

Trees == {TreeA, TreeB}

ROOT_P == <<"/", "p">>
ROOT_AB == <<"/", "a", "b">>
OTHER_DIR == <<"/", "o">>

\* files outside every project root
Elsewhere ==
    (OTHER_DIR \o <<SEP>> \o N_a \o <<SEP>> \o N_x_py :> TextFile(SRC_Y))
    @@ (OTHER_DIR \o <<SEP>> \o N_m_py :> TextFile(SRC_X))

Roots == {ROOT_P, ROOT_AB}
WalkWhitelists == {Nothing, Some(<<P_star_py>>), Some(<<P_dot_py>>), Some(<<>>)}
WalkBlacklists == {Nothing, Some(<<N_hidden>>), Some(<<N_b>>), Some(<<P_dot_slash>>),
                   Some(<<STAR>>), Some(<<>>)}

AsmWhitelists == {Nothing, Some(<<P_dot_py>>)}
AsmBlacklists == {Nothing}
Overviews == {<<>>, <<"Overview", " ", "text">>}
Questions == {Nothing, Some(<<>>), Some(<<"Q?">>)}
AsmPyOptions ==
    {Nothing,
     Some([add_docstrings |-> FALSE]),
     Some([add_comments |-> FALSE, add_imports |-> FALSE, add_docstrings |-> TRUE,
           ipynb_output |-> TRUE])}

MatchPaths == {<<>>, N_x_py, N_a \o <<SEP>> \o N_x_py, <<".", SEP>> \o N_y_py,
               N_pycache \o <<SEP>> \o N_c_pyc, <<"*">>}
MatchPatterns == {STAR, P_dot_py, P_star_py, N_a, <<>>}

GenToks == {FUNCDEF, IFX, DOC, PASS, IMPORT, HASH}
GenLines == {Ln(i, t) : i \in 0..1, t \in GenToks}
GenTexts == {Src(ls, nl) : ls \in SeqsUpTo(GenLines, MaxLines), nl \in BOOLEAN}
PickedTexts == {SRC_X, SRC_Y, SRC_M, SRC_BAD,
                Src(<<Ln(0, FUNCDEF), Ln(2, DOC), Ln(2, IMPORTANT), Ln(0, FROM)>>, TRUE),
                Src(<<Ln(0, IFX), Ln(1, CLASSDEF), Ln(2, DOC)>>, TRUE)}
F_py == <<"f", ".", "p", "y">>
PlainFiles == {[name |-> F_py, data |-> TextFile(t)] : t \in GenTexts \cup PickedTexts}
NotebookFiles ==
    {[name |-> N_n_ipynb, data |-> d] :
        d \in {JsonFile(NB_TWO), JsonFile(NB_NO_CELLS), JsonFile(NB_EMPTY_OBJECT),
               JsonFile(NB_BAD_CELL), JsonFile(NB_BARE_CELLS), JsonFile(NB_ARRAY),
               TextFile(SRC_X)}}
OptionKeys == {"add_comments", "add_imports", "add_docstrings", "ipynb_output"}
TransformOptions == [OptionKeys -> BOOLEAN] \cup {<<>>}

\* ------------------------------------------------------------------------
\* States and actions
\* ------------------------------------------------------------------------

MatchIdle == m_path = <<>> /\ m_patterns = <<>> /\ m_result = Nothing

TransformIdle ==
    /\ t_name = <<>>
    /\ t_data = Missing
    /\ t_opts = <<>>
    /\ t_out = Nothing
    /\ t_parsed = <<>>
    /\ t_out2 = Nothing

\* the fields of an assembler over tree t in a process standing in pwd, files
\* and visited being what the walk gave
Fields(t, top, wl, bl, pwd, files, visited) ==
    /\ tree = t
    /\ disk = Disk(t, top, Elsewhere)
    /\ cwd = top
    /\ whitelist_arg = wl
    /\ blacklist_files = bl
    /\ whitelist_files = files
    /\ walked = visited
    /\ snippet_marker = DEFAULT_MARKER
    /\ prompt = <<>>
    /\ proc_cwd = pwd
    /\ rendered = <<>>
    /\ opened = <<>>
    /\ ret = Nothing
    /\ clipboard = Nothing
    /\ n_info = 0
    /\ last_info = Nothing

\* Damj.__init__ before the walk: the defaults stand in for the lists not given
Entered(t, top, whitelist, blacklist, pwd) ==
    Fields(t, top,
           IF IsSome(whitelist) THEN whitelist[1] ELSE DEFAULT_WHITELIST,
           IF IsSome(blacklist) THEN blacklist[1] ELSE DEFAULT_BLACKLIST,
           pwd, <<>>, <<>>)

\* Damj.__init__: the state of an assembler built in a process standing in pwd
Constructed(t, top, whitelist, blacklist, pwd) ==
    LET wl == IF IsSome(whitelist) THEN whitelist[1] ELSE DEFAULT_WHITELIST
        bl == IF IsSome(blacklist) THEN blacklist[1] ELSE DEFAULT_BLACKLIST
        w == _get_whitelist_files(t, top, wl, bl)
    IN Fields(t, top, wl, bl, pwd, w.files, w.visited)

\* Damj.__init__, the walk: self.whitelist_files = self._get_whitelist_files(...)
Construct ==
    LET w == _get_whitelist_files(tree, cwd, whitelist_arg, blacklist_files) IN
    /\ walked = <<>>
    /\ whitelist_files' = w.files
    /\ walked' = w.visited
    /\ UNCHANGED <<tree, disk, cwd, whitelist_arg, blacklist_files, snippet_marker,
                   prompt, proc_cwd, rendered, opened, ret, clipboard, n_info, last_info>>
    /\ UNCHANGED <<matchVars, xfVars>>

AsmIdle == Constructed(TreeA, ROOT_P, Nothing, Nothing, ROOT_P)

\* Damj.project_info, in its steps: the overview and the structure ...
InfoSections(project_overview, add_project_structure, st) ==
    IF project_overview # <<>>
    THEN (IF add_project_structure
          THEN _add_project_structure(_add_project_overview(prompt, project_overview), st.text)
          ELSE _add_project_overview(prompt, project_overview))
    ELSE (IF add_project_structure THEN _add_project_structure(prompt, st.text) ELSE prompt)

\* ... the files' content ...
InfoFiles(p, add_files_content, py_options) ==
    IF add_files_content
    THEN _add_files_content(p, whitelist_files, py_options, cwd, snippet_marker,
                            disk, proc_cwd, <<>>)
    ELSE [ok |-> TRUE, prompt |-> p, err |-> None, opened |-> <<>>]

\* ... and the assignment to self.prompt, which a raised exception skips
InfoCommit(args, st, fc) ==
    /\ n_info < MaxCalls
    /\ prompt' = IF fc.ok THEN fc.prompt ELSE prompt
    /\ rendered' = IF args.add_project_structure THEN st.visited ELSE rendered
    /\ opened' = fc.opened
    /\ ret' = Some([op |-> "project_info", args |-> args, ok |-> fc.ok, kind |-> "str",
                    value |-> IF fc.ok THEN fc.prompt ELSE <<>>, err |-> fc.err])
    /\ last_info' = Some([args |-> args, ok |-> fc.ok])
    /\ n_info' = n_info + 1
    /\ UNCHANGED <<tree, disk, cwd, whitelist_arg, blacklist_files, whitelist_files,
                   snippet_marker, proc_cwd, walked, clipboard>>
    /\ UNCHANGED <<matchVars, xfVars>>

InfoWith(args, st) ==
    InfoCommit(args, st,
               InfoFiles(InfoSections(args.project_overview, args.add_project_structure, st),
                         args.add_files_content,
                         IF IsSome(args.py_options) THEN args.py_options[1]
                         ELSE DEFAULT_PY_OPTIONS))

project_info(project_overview, add_project_structure, add_files_content, py_options) ==
    InfoWith([project_overview |-> project_overview,
              add_project_structure |-> add_project_structure,
              add_files_content |-> add_files_content,
              py_options |-> py_options],
             get_project_structure(tree, cwd, blacklist_files))

\* any number of calls, up to the bound, with the arguments drawn
ProjectInfoCall ==
    \E o \in Overviews, s \in BOOLEAN, f \in BOOLEAN :
        project_info(o, s, f, IF f THEN Some([add_docstrings |-> FALSE]) ELSE Nothing)

\* the first call on a fresh assembler, with every option drawn
ProjectInfoOnce ==
    /\ n_info = 0
    /\ \E o \in Overviews, s \in BOOLEAN, f \in BOOLEAN, po \in AsmPyOptions :
           /\ (~f => po = Nothing)
           /\ project_info(o, s, f, po)

\* Damj.create_prompt: p is the local prompt after the question and the trim;
\* self.prompt is not assigned
CreateCommit(args, p) ==
    /\ clipboard' = IF args.copy_to_clipboard THEN Some(p) ELSE clipboard
    /\ ret' = Some([op |-> "create_prompt", args |-> args, ok |-> TRUE,
                    kind |-> IF args.to_markdown THEN "Markdown" ELSE "str",
                    value |-> IF args.to_markdown THEN show_markdown(p) ELSE p,
                    err |-> None])
    /\ UNCHANGED <<tree, disk, cwd, whitelist_arg, blacklist_files, whitelist_files,
                   snippet_marker, prompt, proc_cwd, walked, rendered, opened,
                   n_info, last_info>>
    /\ UNCHANGED <<matchVars, xfVars>>

create_prompt(question, copy_to_clipboard, to_markdown) ==
    CreateCommit([question |-> question, copy_to_clipboard |-> copy_to_clipboard,
                  to_markdown |-> to_markdown],
                 _post_process_prompt(IF IsSome(question) /\ question[1] # <<>>
                                      THEN _add_question(prompt, question[1])
                                      ELSE prompt))

\* create_prompt with its default flags
CreatePromptCall == \E q \in Questions : create_prompt(q, TRUE, FALSE)

\* create_prompt with every flag drawn
CreatePromptAny ==
    \E q \in Questions, c \in BOOLEAN, m \in BOOLEAN : create_prompt(q, c, m)

\* os.chdir by the program that uses the assembler
Chdir ==
    /\ proc_cwd' \in {cwd, OTHER_DIR} \ {proc_cwd}
    /\ UNCHANGED <<tree, disk, cwd, whitelist_arg, blacklist_files, whitelist_files,
                   snippet_marker, prompt, walked, rendered, opened, ret, clipboard,
                   n_info, last_info>>
    /\ UNCHANGED <<matchVars, xfVars>>

\* ---- one assembler over the worked example's tree, called again and again ----

Init ==
    /\ Constructed(TreeA, ROOT_P, Nothing, Nothing, ROOT_P)
    /\ MatchIdle
    /\ TransformIdle

Next == ProjectInfoCall \/ CreatePromptCall \/ Chdir

Spec == Init /\ [][Next]_vars

\* ---- a fresh assembler, one project_info call, then create_prompt ----

InitOnce ==
    /\ \E t \in Trees, wl \in AsmWhitelists, bl \in AsmBlacklists :
           Constructed(t, ROOT_P, wl, bl, ROOT_P)
    /\ MatchIdle
    /\ TransformIdle

NextOnce == ProjectInfoOnce \/ CreatePromptAny \/ Chdir

SpecOnce == InitOnce /\ [][NextOnce]_vars

\* ---- the constructor's walk and the renderer on drawn trees, roots and lists ----

RenderStructure ==
    LET st == get_project_structure(tree, cwd, blacklist_files) IN
    /\ walked # <<>>
    /\ rendered = <<>>
    /\ rendered' = st.visited
    /\ ret' = Some([op |-> "get_project_structure", args |-> <<>>, ok |-> TRUE,
                    kind |-> "str", value |-> st.text, err |-> None])
    /\ UNCHANGED <<tree, disk, cwd, whitelist_arg, blacklist_files, whitelist_files,
                   snippet_marker, prompt, proc_cwd, walked, opened, clipboard,
                   n_info, last_info>>
    /\ UNCHANGED <<matchVars, xfVars>>

InitWalk ==
    /\ \E t \in Trees, top \in Roots, wl \in WalkWhitelists, bl \in WalkBlacklists :
           Entered(t, top, wl, bl, top)
    /\ MatchIdle
    /\ TransformIdle

NextWalk == Construct \/ RenderStructure

SpecWalk == InitWalk /\ [][NextWalk]_vars

\* ---- matches_pattern on drawn inputs ----

Match ==
    /\ m_result = Nothing
    /\ m_result' = Some(matches_pattern(m_path, m_patterns))
    /\ UNCHANGED <<m_path, m_patterns, asmVars, xfVars>>

InitMatch ==
    /\ m_path \in MatchPaths
    /\ m_patterns \in SeqsUpTo(MatchPatterns, MaxPatterns)
    /\ m_result = Nothing
    /\ AsmIdle
    /\ TransformIdle

NextMatch == Match

SpecMatch == InitMatch /\ [][NextMatch]_vars

\* ---- get_file_content on drawn files and options ----

WORK_DIR == <<"/", "w">>

OneFile(name, data) == (AbsPath(WORK_DIR, name) :> data)

\* the transformer is applied to the drawn file
Transform ==
    /\ t_out = Nothing
    /\ t_out' = Some(get_file_content(t_name, t_opts, OneFile(t_name, t_data), WORK_DIR))
    /\ t_parsed' = t_out'[1].parsed
    /\ UNCHANGED <<t_name, t_data, t_opts, t_out2, asmVars, matchVars>>

\* the transformer is applied again, to a file holding what it returned
Retransform ==
    /\ IsSome(t_out) /\ t_out[1].ok
    /\ t_out2 = Nothing
    /\ ~EndsWith(t_name, IPYNB)
    /\ t_out2' = Some(get_file_content(t_name, t_opts,
                                       OneFile(t_name, TextFile(t_out[1].value)), WORK_DIR))
    /\ UNCHANGED <<t_name, t_data, t_opts, t_out, t_parsed, asmVars, matchVars>>

InitTransform ==
    /\ \E f \in PlainFiles \cup NotebookFiles : t_name = f.name /\ t_data = f.data
    /\ t_opts \in TransformOptions
    /\ t_out = Nothing
    /\ t_parsed = <<>>
    /\ t_out2 = Nothing
    /\ AsmIdle
    /\ MatchIdle

NextTransform == Transform \/ Retransform

SpecTransform == InitTransform /\ [][NextTransform]_vars

\* ------------------------------------------------------------------------
\* Properties
\* ------------------------------------------------------------------------

\* some pattern of the list is "*" or occurs in the path
SomePatternIn(path, patterns) ==
    \E k \in 1..Len(patterns) : patterns[k] = STAR \/ Contains(path, patterns[k])

\* a is a prefix of b
IsPrefix(a, b) == Len(a) <= Len(b) /\ SubSeq(b, 1, Len(a)) = a

\* the places where a text holds an atom, and where it holds a run of atoms
Places(text, atom) == {i \in 1..Len(text) : text[i] = atom}
RunPlaces(text, run) ==
    {i \in 1..(Len(text) - Len(run) + 1) : SubSeq(text, i, i + Len(run) - 1) = run}

\* every place of A comes before every place of B
AllBefore(A, B) == \A i \in A, j \in B : i < j

\* ---- C1 ----

\* C1: the Inclusion Set computed at construction holds no path that matches a
\* blacklist pattern, whatever the whitelist is, "*" included.
C1_BlacklistPrecedence ==
    \A i \in 1..Len(whitelist_files) : ~SomePatternIn(whitelist_files[i], blacklist_files)

\* a visible file at the root matches the whitelist and the blacklist, and the
\* Inclusion Set holds other files
C1_Witness ==
    /\ walked # <<>>
    /\ whitelist_files # <<>>
    /\ \E i \in 1..Len(tree[0].files) :
           /\ ~StartsWith(tree[0].files[i].name, HIDDEN)
           /\ SomePatternIn(PathJoin(<<".">>, tree[0].files[i].name), whitelist_arg)
           /\ SomePatternIn(PathJoin(<<".">>, tree[0].files[i].name), blacklist_files)

\* ---- C2 ----

\* C2: matches_pattern(path, patterns) is true exactly when patterns holds "*"
\* or some pattern is a substring of path: false for the empty list, true for
\* every path when "*" is in it.
C2_MatchesPattern ==
    IsSome(m_result) =>
        /\ m_result[1] = SomePatternIn(m_path, m_patterns)
        /\ (m_patterns = <<>> => m_result[1] = FALSE)
        /\ ((\E k \in 1..Len(m_patterns) : m_patterns[k] = STAR) => m_result[1] = TRUE)

\* the first pattern does not match and a later one, not "*", does
C2_Witness ==
    /\ IsSome(m_result)
    /\ m_result[1] = TRUE
    /\ Len(m_patterns) >= 2
    /\ m_patterns[1] # STAR
    /\ ~Contains(m_path, m_patterns[1])
    /\ m_patterns[2] # STAR
    /\ Contains(m_path, m_patterns[2])

\* ---- C3 ----

WorkedExample ==
    /\ walked # <<>>
    /\ tree = TreeA
    /\ whitelist_arg = <<P_star_py>>
    /\ blacklist_files = <<N_hidden>>

\* C3: on the tree a/, a/.hidden/, a/b/, a/x.py, a/.secret, a/b/y.py, with
\* blacklist [".hidden"] and whitelist ["*.py"], the Inclusion Set is a/x.py,
\* a/b/y.py in traversal order.
C3_WorkedExample ==
    WorkedExample =>
        whitelist_files = <<N_a \o <<SEP>> \o N_x_py,
                            N_a \o <<SEP>> \o N_b \o <<SEP>> \o N_y_py>>

\* ---- C4 ----

\* C4: the renderer visits exactly the directories the walker visits, whatever
\* the text of the root path is.
C4_SamePruning == rendered # <<>> => rendered = walked

\* ---- C5 ----

SnippetHeader(file) == snippet_marker \o _get_relative_path(cwd, file) \o <<"\n">>

\* the place of the snippet block of the k-th file of the Inclusion Set
SnippetPlaces(text, k) == RunPlaces(text, SnippetHeader(whitelist_files[k]))

\* the places of every snippet block
AllSnippetPlaces(text) == UNION {SnippetPlaces(text, k) : k \in 1..Len(whitelist_files)}

SectionsInOrder(text, info, question) ==
    /\ (Places(text, OVERVIEW_HEADER) # {}) = (info.project_overview # <<>>)
    /\ (Places(text, QUESTION_HEADER) # {}) = (IsSome(question) /\ question[1] # <<>>)
    /\ (Places(text, STRUCTURE_HEADER) # {}) = info.add_project_structure
    /\ \A k \in 1..Len(whitelist_files) :
           Cardinality(SnippetPlaces(text, k)) = IF info.add_files_content THEN 1 ELSE 0
    /\ \A k \in 1..Len(whitelist_files), l \in 1..Len(whitelist_files) :
           k < l => AllBefore(SnippetPlaces(text, k), SnippetPlaces(text, l))
    /\ AllBefore(Places(text, OVERVIEW_HEADER), Places(text, STRUCTURE_HEADER))
    /\ AllBefore(Places(text, OVERVIEW_HEADER), AllSnippetPlaces(text))
    /\ AllBefore(Places(text, OVERVIEW_HEADER), Places(text, QUESTION_HEADER))
    /\ AllBefore(Places(text, STRUCTURE_HEADER), AllSnippetPlaces(text))
    /\ AllBefore(Places(text, STRUCTURE_HEADER), Places(text, QUESTION_HEADER))
    /\ AllBefore(AllSnippetPlaces(text), Places(text, QUESTION_HEADER))

\* create_prompt returned a str after the one project_info call, which returned
AfterInfoAndCreate ==
    /\ n_info = 1
    /\ IsSome(last_info) /\ last_info[1].ok
    /\ IsSome(ret) /\ ret[1].op = "create_prompt" /\ ret[1].kind = "str"

\* C5: on a fresh assembler, one project_info call that returns, then one
\* create_prompt call, give a text whose sections come in the order overview,
\* structure, snippet blocks in Inclusion-Set order, question; the overview and
\* the question are there exactly when their text is not empty, and the
\* structure header is absent when add_project_structure is false.
C5_SectionOrder ==
    AfterInfoAndCreate => SectionsInOrder(ret[1].value, last_info[1].args, ret[1].args.question)

\* every section is there, with two snippet blocks, in a returned str
C5_Witness ==
    /\ AfterInfoAndCreate
    /\ last_info[1].args.project_overview # <<>>
    /\ last_info[1].args.add_project_structure
    /\ last_info[1].args.add_files_content
    /\ Len(whitelist_files) >= 2
    /\ IsSome(ret[1].args.question) /\ ret[1].args.question[1] # <<>>
    /\ Places(ret[1].value, QUESTION_HEADER) # {}

\* ---- C6 ----

\* C6: over any sequence of project_info and create_prompt calls the buffer is
\* append-only: its value before a call is a prefix of its value after it.
C6_AppendOnly == [][IsPrefix(prompt, prompt')]_vars

\* two calls have added to the buffer, and create_prompt has returned a text
\* that is not the buffer
C6_Witness ==
    /\ n_info >= 2
    /\ Cardinality(Places(prompt, OVERVIEW_HEADER)) = 2
    /\ IsSome(ret) /\ ret[1].op = "create_prompt"
    /\ ret[1].value # prompt
    /\ Places(ret[1].value, QUESTION_HEADER) # {}
    /\ Places(prompt, QUESTION_HEADER) = {}

\* ---- C7 ----

\* only the docstring step is switched on
StripOnly ==
    /\ ~EndsWith(t_name, IPYNB)
    /\ Get(t_opts, "add_docstrings", TRUE) = FALSE
    /\ Get(t_opts, "add_comments", TRUE) = TRUE
    /\ Get(t_opts, "add_imports", TRUE) = TRUE

\* C7: docstring stripping is idempotent: a second parse / strip / unparse pass
\* over the output of a first one succeeds and returns the same text.
C7_StripIdempotent ==
    (StripOnly /\ IsSome(t_out2)) => (t_out2[1].ok /\ t_out2[1].value = t_out[1].value)

\* ---- C8 ----

\* a notebook whose JSON document is an object without the key "cells"
NotebookWithoutCells ==
    /\ EndsWith(t_name, IPYNB)
    /\ t_data.kind = "json"
    /\ t_data.doc.type = "object"
    /\ "cells" \notin DOMAIN t_data.doc.fields

\* C8 as stated: transforming a notebook whose JSON document has no top-level
\* "cells" key fails with an error.
C8_MissingCellsFails ==
    (NotebookWithoutCells /\ IsSome(t_out)) => ~t_out[1].ok

\* C8: transforming a notebook whose JSON document is an object with no
\* top-level "cells" key returns the empty text, and no error is raised.
C8_MissingCellsEmpty ==
    (NotebookWithoutCells /\ IsSome(t_out)) => (t_out[1].ok /\ t_out[1].value = <<>>)

\* a notebook with other top-level keys and no "cells" has been transformed
C8_Witness ==
    /\ NotebookWithoutCells
    /\ DOMAIN t_data.doc.fields # {}
    /\ IsSome(t_out)
    /\ t_out[1].ok

\* ---- C9 ----

\* a plain file, docstrings off, and comments or imports off
StripAndFilter ==
    /\ ~EndsWith(t_name, IPYNB)
    /\ t_data.kind = "text"
    /\ Get(t_opts, "add_docstrings", TRUE) = FALSE
    /\ (Get(t_opts, "add_comments", TRUE) = FALSE \/ Get(t_opts, "add_imports", TRUE) = FALSE)

\* a line one of the two line filters drops
IsCommentOrImport(line) ==
    StrippedStartsWith(line, HashPrefixed \cup ImportPrefixed \cup FromPrefixed)

\* C9: for a plain file with docstrings off and comments or imports off, the
\* text handed to the parser has every comment line and every import line of
\* the file as read: none has been dropped before the parse.
C9_ParsesUnfiltered ==
    (StripAndFilter /\ IsSome(t_out)) =>
        /\ Len(t_parsed) = 1
        /\ SelectSeq(SplitLines(t_parsed[1]), IsCommentOrImport)
               = SelectSeq(SplitLines(t_data.text), IsCommentOrImport)

\* ---- C10 ----

\* C10: project_info with add_files_content opens, for every path of the
\* Inclusion Set, the file at the project root joined with that path, whatever
\* the working directory of the process is.
C10_ReadsBeneathRoot ==
    (IsSome(last_info) /\ last_info[1].args.add_files_content) =>
        /\ Len(opened) = Len(whitelist_files)
        /\ \A i \in 1..Len(opened) : opened[i] = AbsPath(cwd, whitelist_files[i])

====
